---- MODULE Spec2Model ----
(***************************************************************************)
(* A model of cod_stats.py (cod-stats.py is the same script without its    *)
(* docstrings): read_game_data, compute_series_stats, generate_chart,      *)
(* save_plot_pdf, save_table_pdf and main.                                 *)
(*                                                                         *)
(* Text is a sequence of Unicode code points, a file is a sequence of      *)
(* cells of UTF-8 bytes, and a Python float is the rational it stands for  *)
(* (a record [n, d] in lowest terms, d > 0); nan and inf are outside the   *)
(* model.                                                                  *)
(***************************************************************************)
EXTENDS Integers, Sequences, FiniteSets, TLC

VARIABLES
    file,               \* the input: [exists, header, rows], cells as UTF-8 bytes
    pc,                 \* position of the run
    exc,                \* the uncaught exception that ended the run, or "none"
    row_i,              \* read_game_data: index of the next row of csv_reader
    game_data,          \* the dict of read_game_data / main / save_table_pdf
    out_dir,            \* filesystem: does OUTPUT_DIR exist
    graph_pdf,          \* filesystem: the chart document [exists, pages]
    table_pdf,          \* filesystem: the table document [exists, pages]
    stdout,             \* what main printed
    calls,              \* the functions main has called, in order
    timestamps_sorted,  \* main's locals
    kd_series,
    skill_series,
    game_indices,
    stats_calls,        \* the arguments compute_series_stats was called with
    kd_stats,           \* <<>> or <<the tuple compute_series_stats returned>>
    skill_stats,
    data_rows,          \* save_table_pdf's locals
    total_pages,
    page,
    built_pages         \* the figures save_table_pdf has built, in order

vars == <<file, pc, exc, row_i, game_data, out_dir, graph_pdf, table_pdf, stdout,
          calls, timestamps_sorted, kd_series, skill_series, game_indices,
          stats_calls, kd_stats, skill_stats, data_rows, total_pages, page,
          built_pages>>

-----------------------------------------------------------------------------
(* Bounds of the model *)

\* rows of a hand-picked input file
MaxRows == 3
\* generated input files have ROWS_PER_PAGE - 1 .. ROWS_PER_PAGE + PageSlack rows
PageSlack == 2
\* save_table_pdf alone is run on datasets of 0 .. MaxRecords records
MaxRecords == 81
\* compute_series_stats alone is run on series of 1 .. MaxSeries numbers
MaxSeries == 4

-----------------------------------------------------------------------------
(* Program constants *)

ROWS_PER_PAGE == 40
TABLE_HEADERS == <<"Timestamp", "Skill", "Kills", "Deaths", "K/D Ratio">>

\* the literal 1e-9 of compute_series_stats
EPS == [n |-> 1, d |-> 1000000000]

\* "UTC Timestamp"
UTC_TIMESTAMP == <<85, 84, 67, 32, 84, 105, 109, 101, 115, 116, 97, 109, 112>>
\* the first key read_game_data looks up: the three characters U+00EF U+00BB
\* U+00BF followed by "UTC Timestamp"
KEY_BOM_TIMESTAMP == <<239, 187, 191>> \o UTC_TIMESTAMP
\* "Skill", "Kills", "Deaths"
KEY_SKILL == <<83, 107, 105, 108, 108>>
KEY_KILLS == <<75, 105, 108, 108, 115>>
KEY_DEATHS == <<68, 101, 97, 116, 104, 115>>

\* Python's None, which is no text
None == << -1 >>

-----------------------------------------------------------------------------
(* Rationals: the values of Python floats *)

Abs(x) == IF x < 0 THEN -x ELSE x

RECURSIVE GCD(_, _)
GCD(a, b) == IF b = 0 THEN a ELSE GCD(b, a % b)

\* n/d in lowest terms with a positive denominator (d # 0)
Rat(n, d) ==
    LET g == GCD(Abs(n), Abs(d))
        s == IF d < 0 THEN -1 ELSE 1
    IN  [n |-> (s * n) \div g, d |-> (s * d) \div g]

\* -1, 0 or 1 as a/b is below, equal to or above c/d (b, d > 0), by the
\* continued fractions of the two, so that no product is formed
RECURSIVE RatCmp(_, _, _, _)
RatCmp(a, b, c, d) ==
    LET qa == a \div b
        qc == c \div d
        ra == a % b
        rc == c % d
    IN  IF qa # qc THEN (IF qa < qc THEN -1 ELSE 1)
        ELSE IF ra = 0 \/ rc = 0
             THEN (IF ra = rc THEN 0 ELSE IF ra = 0 THEN -1 ELSE 1)
        ELSE 0 - RatCmp(b, ra, d, rc)

RatLess(x, y) == RatCmp(x.n, x.d, y.n, y.d) < 0
RatLeq(x, y) == RatCmp(x.n, x.d, y.n, y.d) <= 0
RatAbs(x) == [n |-> Abs(x.n), d |-> x.d]
RatAdd(x, y) == Rat(x.n * y.d + y.n * x.d, x.d * y.d)
RatZero == Rat(0, 1)

-----------------------------------------------------------------------------
(* Text *)

IsDigit(c) == c \in 48..57

RECURSIVE DigitsValue(_)
DigitsValue(s) ==
    IF s = <<>> THEN 0
    ELSE DigitsValue(SubSeq(s, 1, Len(s) - 1)) * 10 + (s[Len(s)] - 48)

RECURSIVE Pow10(_)
Pow10(k) == IF k = 0 THEN 1 ELSE 10 * Pow10(k - 1)

\* Python's str < str: by code points, a proper prefix first
RECURSIVE str_lt(_, _)
str_lt(a, b) ==
    IF b = <<>> THEN FALSE
    ELSE IF a = <<>> THEN TRUE
    ELSE IF a[1] # b[1] THEN a[1] < b[1]
    ELSE str_lt(Tail(a), Tail(b))

\* open(file_path, "r", encoding="utf-8"): the code points of well-formed UTF-8
RECURSIVE utf8_decode(_)
utf8_decode(bytes) ==
    IF bytes = <<>> THEN <<>>
    ELSE LET b == bytes[1]
             n == Len(bytes)
         IN  IF b < 128 THEN <<b>> \o utf8_decode(SubSeq(bytes, 2, n))
             ELSE IF b < 224
                  THEN <<(b - 192) * 64 + (bytes[2] - 128)>>
                       \o utf8_decode(SubSeq(bytes, 3, n))
             ELSE IF b < 240
                  THEN <<(b - 224) * 4096 + (bytes[2] - 128) * 64 + (bytes[3] - 128)>>
                       \o utf8_decode(SubSeq(bytes, 4, n))
             ELSE <<(b - 240) * 262144 + (bytes[2] - 128) * 4096
                    + (bytes[3] - 128) * 64 + (bytes[4] - 128)>>
                  \o utf8_decode(SubSeq(bytes, 5, n))

Range(s) == {s[i] : i \in DOMAIN s}

-----------------------------------------------------------------------------
(* Python built-ins used by the script *)

\* bool(x) of a text or None
truthy(x) == x # None /\ x # <<>>

\* a or b
py_or(a, b) == IF truthy(a) THEN a ELSE b

\* the sign of a numeric literal and what follows it
SignOf(t) == IF t # <<>> /\ t[1] = 45 THEN -1 ELSE 1
Unsigned(t) == IF t # <<>> /\ t[1] \in {43, 45} THEN Tail(t) ELSE t

\* int(t): [ok, exc, v]; of None a TypeError, of a text that is no optionally
\* signed run of digits a ValueError
py_int(t) ==
    IF t = None THEN [ok |-> FALSE, exc |-> "TypeError", v |-> 0]
    ELSE LET body == Unsigned(t)
         IN  IF body # <<>> /\ \A i \in DOMAIN body : IsDigit(body[i])
             THEN [ok |-> TRUE, exc |-> "none", v |-> SignOf(t) * DigitsValue(body)]
             ELSE [ok |-> FALSE, exc |-> "ValueError", v |-> 0]

\* float(t): [ok, exc, v]; digits with at most one point and at least one digit
py_float(t) ==
    IF t = None THEN [ok |-> FALSE, exc |-> "TypeError", v |-> RatZero]
    ELSE LET body == Unsigned(t)
             dots == {i \in DOMAIN body : body[i] = 46}
             dot == IF dots = {} THEN Len(body) + 1 ELSE CHOOSE i \in dots : TRUE
             ip == SubSeq(body, 1, dot - 1)
             fp == SubSeq(body, dot + 1, Len(body))
         IN  IF /\ Cardinality(dots) <= 1
                /\ Len(ip) + Len(fp) >= 1
                /\ \A i \in DOMAIN ip : IsDigit(ip[i])
                /\ \A i \in DOMAIN fp : IsDigit(fp[i])
             THEN [ok |-> TRUE, exc |-> "none",
                   v |-> Rat(SignOf(t) * DigitsValue(ip \o fp), Pow10(Len(fp)))]
             ELSE [ok |-> FALSE, exc |-> "ValueError", v |-> RatZero]

\* the keys in descending order
sorted_desc(keys) ==
    LET rank == [k \in keys |-> Cardinality({j \in keys : str_lt(k, j)})]
    IN  [i \in 1..Cardinality(keys) |-> CHOOSE k \in keys : rank[k] = i - 1]

\* sorted(keys): the keys in ascending order of str <
sorted(keys) ==
    LET rank == [k \in keys |-> Cardinality({j \in keys : str_lt(j, k)})]
    IN  [i \in 1..Cardinality(keys) |-> CHOOSE k \in keys : rank[k] = i - 1]

-----------------------------------------------------------------------------
(* compute_series_stats *)

\* The scans of min, max and sum go through a series from left to right.
\* They are written here over the two halves of a range, which gives the same
\* results with a shallow evaluation: of two equal extrema the one in the left
\* half, the one a left-to-right scan meets first, is kept.

\* min(series): the first of the smallest elements
RECURSIVE min_scan(_, _, _)
min_scan(series, lo, hi) ==
    IF lo = hi THEN series[lo]
    ELSE LET mid == (lo + hi) \div 2
             l == min_scan(series, lo, mid)
             r == min_scan(series, mid + 1, hi)
         IN  IF RatLess(r, l) THEN r ELSE l

py_min(series) == min_scan(series, 1, Len(series))

\* max(series): the first of the largest elements
RECURSIVE max_scan(_, _, _)
max_scan(series, lo, hi) ==
    IF lo = hi THEN series[lo]
    ELSE LET mid == (lo + hi) \div 2
             l == max_scan(series, lo, mid)
             r == max_scan(series, mid + 1, hi)
         IN  IF RatLess(l, r) THEN r ELSE l

py_max(series) == max_scan(series, 1, Len(series))

\* sum(series)
RECURSIVE sum_scan(_, _, _)
sum_scan(series, lo, hi) ==
    IF lo > hi THEN RatZero
    ELSE IF lo = hi THEN series[lo]
    ELSE LET mid == (lo + hi) \div 2
         IN  RatAdd(sum_scan(series, lo, mid), sum_scan(series, mid + 1, hi))

py_sum(series) == sum_scan(series, 1, Len(series))

\* min(range(len(series)), key=series.__getitem__): indices are 0-based, and a
\* later index replaces the best one only when its key is strictly smaller
RECURSIVE min_key_scan(_, _, _)
min_key_scan(series, lo, hi) ==
    IF lo = hi THEN lo
    ELSE LET mid == (lo + hi) \div 2
             l == min_key_scan(series, lo, mid)
             r == min_key_scan(series, mid + 1, hi)
         IN  IF RatLess(series[r + 1], series[l + 1]) THEN r ELSE l

py_min_index(series) == min_key_scan(series, 0, Len(series) - 1)

\* max(range(len(series)), key=series.__getitem__)
RECURSIVE max_key_scan(_, _, _)
max_key_scan(series, lo, hi) ==
    IF lo = hi THEN lo
    ELSE LET mid == (lo + hi) \div 2
             l == max_key_scan(series, lo, mid)
             r == max_key_scan(series, mid + 1, hi)
         IN  IF RatLess(series[l + 1], series[r + 1]) THEN r ELSE l

\* the same scan keeping the last of the largest elements
RECURSIVE max_key_scan_last(_, _, _)
max_key_scan_last(series, lo, hi) ==
    IF lo = hi THEN lo
    ELSE LET mid == (lo + hi) \div 2
             l == max_key_scan_last(series, lo, mid)
             r == max_key_scan_last(series, mid + 1, hi)
         IN  IF RatLeq(series[l + 1], series[r + 1]) THEN r ELSE l

py_max_index_last(series) == max_key_scan_last(series, 0, Len(series) - 1)

py_max_index(series) == max_key_scan(series, 0, Len(series) - 1)

\* max(a, b, c)
py_max3(a, b, c) ==
    LET ab == IF RatLess(a, b) THEN b ELSE a
    IN  IF RatLess(ab, c) THEN c ELSE ab

compute_series_stats(series) ==
    LET smin == py_min(series)
        smax == py_max(series)
        total == py_sum(series)
    IN  [smin |-> smin,
         smax |-> smax,
         avg |-> Rat(total.n, total.d * Len(series)),
         span |-> py_max3(RatAbs(smin), RatAbs(smax), EPS),
         min_idx |-> py_min_index(series),
         max_idx |-> py_max_index(series)]

-----------------------------------------------------------------------------
(* read_game_data *)

\* the ratio with integer division in place of true division
parse_kd_ratio_floordiv(kills, deaths) ==
    IF deaths = 0 THEN Rat(kills, 1) ELSE Rat(kills \div deaths, 1)

parse_kd_ratio(kills, deaths) ==
    IF deaths = 0 THEN Rat(kills, 1) ELSE Rat(kills, deaths)

\* csv.DictReader: the field names are the decoded cells of the header row
fieldnames(f) == [j \in DOMAIN f.header |-> utf8_decode(f.header[j])]

\* the i-th row of csv_reader: a dict from the field names to the decoded cells
\* of the row, None for a field the row is too short to hold
csv_row(f, i) ==
    LET names == fieldnames(f)
        cells == f.rows[i]
    IN  [k \in Range(names) |->
            LET j == CHOOSE j \in DOMAIN names : names[j] = k
            IN  IF j <= Len(cells) THEN utf8_decode(cells[j]) ELSE None]

\* row.get(key)
dict_get(row, key) == IF key \in DOMAIN row THEN row[key] ELSE None

\* game_data[ts] = rec
dict_set(d, k, v) == [x \in (DOMAIN d) \cup {k} |-> IF x = k THEN v ELSE d[x]]

NoRecord == [Skill |-> RatZero, Kills |-> 0, Deaths |-> 0, KD |-> RatZero]
Skip == [kind |-> "skip", exc |-> "none", ts |-> <<>>, rec |-> NoRecord]
Raise(e) == [kind |-> "raise", exc |-> e, ts |-> <<>>, rec |-> NoRecord]
Store(ts, rec) == [kind |-> "store", exc |-> "none", ts |-> ts, rec |-> rec]

\* the timestamp the loop body finds in a row
row_ts(row) == py_or(dict_get(row, KEY_BOM_TIMESTAMP), dict_get(row, UTC_TIMESTAMP))

\* the body of the loop with a row that fails coercion skipped, not raised
ParseRowSkipBad(row) ==
    LET ts == row_ts(row)
    IN  IF ~truthy(ts) \/ {KEY_KILLS, KEY_DEATHS, KEY_SKILL} \ DOMAIN row # {}
        THEN Skip
        ELSE LET kills == py_int(row[KEY_KILLS])
                 deaths == py_int(row[KEY_DEATHS])
                 skill == py_float(row[KEY_SKILL])
             IN  IF ~kills.ok \/ ~deaths.ok \/ ~skill.ok THEN Skip
                 ELSE Store(ts, [Skill |-> skill.v, Kills |-> kills.v,
                                 Deaths |-> deaths.v,
                                 KD |-> parse_kd_ratio(kills.v, deaths.v)])

\* the body of the loop over csv_reader: what one row does
ParseRow(row) ==
    LET ts == row_ts(row)
    IN  IF ~truthy(ts) THEN Skip
        ELSE IF KEY_KILLS \notin DOMAIN row THEN Raise("KeyError")
        ELSE LET kills == py_int(row[KEY_KILLS])
             IN  IF ~kills.ok THEN Raise(kills.exc)
        ELSE IF KEY_DEATHS \notin DOMAIN row THEN Raise("KeyError")
        ELSE LET deaths == py_int(row[KEY_DEATHS])
             IN  IF ~deaths.ok THEN Raise(deaths.exc)
        ELSE IF KEY_SKILL \notin DOMAIN row THEN Raise("KeyError")
        ELSE LET skill == py_float(row[KEY_SKILL])
             IN  IF ~skill.ok THEN Raise(skill.exc)
        ELSE Store(ts, [Skill |-> skill.v, Kills |-> kills.v, Deaths |-> deaths.v,
                        KD |-> parse_kd_ratio(kills.v, deaths.v)])

\* read_game_data as a function of the file: [raised, exc, data]
RECURSIVE read_rows(_, _, _)
read_rows(f, i, gd) ==
    IF i > Len(f.rows) THEN [raised |-> FALSE, exc |-> "none", data |-> gd]
    ELSE LET o == ParseRow(csv_row(f, i))
         IN  IF o.kind = "raise" THEN [raised |-> TRUE, exc |-> o.exc, data |-> <<>>]
             ELSE IF o.kind = "skip" THEN read_rows(f, i + 1, gd)
             ELSE read_rows(f, i + 1, dict_set(gd, o.ts, o.rec))

read_game_data(f) == read_rows(f, 1, <<>>)

-----------------------------------------------------------------------------
(* Inputs *)

\* the decimal digits of a natural number
RECURSIVE Dec(_)
Dec(n) == IF n < 10 THEN <<48 + n>> ELSE Dec(n \div 10) \o <<48 + (n % 10)>>

\* the header row; with a byte-order mark the file starts with EF BB BF
BOM_BYTES == <<239, 187, 191>>
Header(bom) ==
    <<(IF bom THEN BOM_BYTES ELSE <<>>) \o UTC_TIMESTAMP, KEY_SKILL, KEY_KILLS, KEY_DEATHS>>

\* hand-picked rows: cells in the order of the header
\* T1, 1.50, 10, 2
RowA == <<(<<84, 49>>), (<<49, 46, 53, 48>>), (<<49, 48>>), (<<50>>)>>
\* T2, 2.00, 0, 0
RowB == <<(<<84, 50>>), (<<50, 46, 48, 48>>), (<<48>>), (<<48>>)>>
\* T3, 0.75, 5, 5
RowC == <<(<<84, 51>>), (<<48, 46, 55, 53>>), (<<53>>), (<<53>>)>>
\* T1, 3, 5, 2: the timestamp of RowA again
RowD == <<(<<84, 49>>), (<<51>>), (<<53>>), (<<50>>)>>
\* an empty timestamp and Kills = x
RowE == <<(<<>>), (<<49>>), (<<120>>), (<<49>>)>>
\* T2, 1, x, 1
RowF == <<(<<84, 50>>), (<<49>>), (<<120>>), (<<49>>)>>
\* T0, 1, 3 and no Deaths cell
RowG == <<(<<84, 48>>), (<<49>>), (<<51>>)>>

RowChoices == {RowA, RowB, RowC, RowD, RowE, RowF, RowG}

\* generated rows: distinct timestamps of one to three digits in no order, a
\* negative Kills in every fifth row
GenRow(i) ==
    <<Dec((i * 37) % 101),
      Dec(i % 3) \o <<46>> \o Dec(i % 10),
      (IF i % 5 = 0 THEN <<45>> ELSE <<>>) \o Dec(i % 7),
      Dec(i % 4)>>

GenRows(n) == [i \in 1..n |-> GenRow(i)]

SmallRows == UNION {[1..n -> RowChoices] : n \in 0..MaxRows}
BigRows == {GenRows(n) : n \in (ROWS_PER_PAGE - 1)..(ROWS_PER_PAGE + PageSlack)}

MissingFile == [exists |-> FALSE, header |-> <<>>, rows |-> <<>>]
Files ==
    {[exists |-> TRUE, header |-> Header(b), rows |-> r] :
        b \in BOOLEAN, r \in SmallRows \cup BigRows}
    \cup {MissingFile}

\* the datasets save_table_pdf is run on alone
\* (what read_game_data returns for the generated file of n rows, whose
\* timestamps are distinct)
GenData(n) ==
    LET f == [exists |-> TRUE, header |-> Header(FALSE), rows |-> GenRows(n)]
    IN  [ts \in {GenRow(i)[1] : i \in 1..n} |->
            ParseRow(csv_row(f, CHOOSE i \in 1..n : GenRow(i)[1] = ts)).rec]

\* the series compute_series_stats is run on alone
StatValues == {Rat(-2, 1), Rat(-1, 2), RatZero, Rat(1, 1), Rat(5, 2)}
StatSeries == UNION {[1..n -> StatValues] : n \in 1..MaxSeries}

NoFile == [exists |-> FALSE, pages |-> <<>>]

-----------------------------------------------------------------------------
(* main *)

\* os.path.exists answering yes for any path
os_path_exists_always(f) == TRUE

os_path_exists(f) == f.exists

\* the emptiness test left out
not_game_data_never(gd) == FALSE

\* not game_data
not_game_data(gd) == DOMAIN gd = {}

\* PdfPages(output_path) opened, figs saved, closed: the file is created or
\* truncated on opening and holds the pages saved while it was open
PdfPages(old, figs) == [exists |-> TRUE, pages |-> figs]

\* file_path does not exist
main_file_missing ==
    /\ pc = "start"
    /\ ~os_path_exists(file)
    /\ stdout' = Append(stdout, "file_missing")
    /\ pc' = "done"
    /\ UNCHANGED <<file, exc, row_i, game_data, out_dir, graph_pdf, table_pdf, calls,
                   timestamps_sorted, kd_series, skill_series, game_indices,
                   stats_calls, kd_stats, skill_stats, data_rows, total_pages, page,
                   built_pages>>

\* os.makedirs(OUTPUT_DIR, exist_ok=True) and the call of read_game_data
main_open ==
    /\ pc = "start"
    /\ os_path_exists(file)
    /\ out_dir' = TRUE
    /\ calls' = Append(calls, "read_game_data")
    /\ game_data' = <<>>
    /\ row_i' = 1
    /\ pc' = "read"
    /\ UNCHANGED <<file, exc, graph_pdf, table_pdf, stdout,
                   timestamps_sorted, kd_series, skill_series, game_indices,
                   stats_calls, kd_stats, skill_stats, data_rows, total_pages, page,
                   built_pages>>

\* one turn of the loop of read_game_data; an exception of the loop body is
\* caught nowhere: it ends read_game_data, whose dict is lost, and main
read_game_data_row ==
    /\ pc = "read"
    /\ row_i <= Len(file.rows)
    /\ LET o == ParseRow(csv_row(file, row_i))
       IN  IF o.kind = "raise"
           THEN /\ pc' = "raised"
                /\ exc' = o.exc
                /\ game_data' = <<>>
                /\ UNCHANGED row_i
           ELSE /\ row_i' = row_i + 1
                /\ game_data' = IF o.kind = "store"
                                THEN dict_set(game_data, o.ts, o.rec)
                                ELSE game_data
                /\ UNCHANGED <<pc, exc>>
    /\ UNCHANGED <<file, out_dir, graph_pdf, table_pdf, stdout, calls,
                   timestamps_sorted, kd_series, skill_series, game_indices,
                   stats_calls, kd_stats, skill_stats, data_rows, total_pages, page,
                   built_pages>>

\* read_game_data returned an empty dict
main_no_data ==
    /\ pc = "read"
    /\ row_i > Len(file.rows)
    /\ not_game_data(game_data)
    /\ stdout' = Append(stdout, "no_valid_data")
    /\ pc' = "done"
    /\ UNCHANGED <<file, exc, row_i, game_data, out_dir, graph_pdf, table_pdf, calls,
                   timestamps_sorted, kd_series, skill_series, game_indices,
                   stats_calls, kd_stats, skill_stats, data_rows, total_pages, page,
                   built_pages>>

\* the series main builds from the dict
main_extract ==
    /\ pc = "read"
    /\ row_i > Len(file.rows)
    /\ ~not_game_data(game_data)
    /\ LET ts == sorted(DOMAIN game_data)
       IN  /\ timestamps_sorted' = ts
           /\ kd_series' = [i \in DOMAIN ts |-> game_data[ts[i]].KD]
           /\ skill_series' = [i \in DOMAIN ts |-> game_data[ts[i]].Skill]
           /\ game_indices' = [i \in 1..Len(ts) |-> i]
    /\ pc' = "chart"
    /\ UNCHANGED <<file, exc, row_i, game_data, out_dir, graph_pdf, table_pdf, stdout,
                   calls, stats_calls, kd_stats, skill_stats, data_rows, total_pages,
                   page, built_pages>>

\* generate_chart: annotate_series_stats for each series that is not empty
generate_chart ==
    /\ pc = "chart"
    /\ calls' = Append(calls, "generate_chart")
    /\ kd_stats' = IF kd_series # <<>>
                   THEN <<compute_series_stats(kd_series)>> ELSE <<>>
    /\ skill_stats' = IF skill_series # <<>>
                      THEN <<compute_series_stats(skill_series)>> ELSE <<>>
    /\ stats_calls' = stats_calls
                      \o (IF kd_series # <<>> THEN <<kd_series>> ELSE <<>>)
                      \o (IF skill_series # <<>> THEN <<skill_series>> ELSE <<>>)
    /\ pc' = "save_plot"
    /\ UNCHANGED <<file, exc, row_i, game_data, out_dir, graph_pdf, table_pdf, stdout,
                   timestamps_sorted, kd_series, skill_series, game_indices,
                   data_rows, total_pages, page, built_pages>>

\* the figure generate_chart returned
ChartFig ==
    [game_indices |-> game_indices, kd_series |-> kd_series,
     skill_series |-> skill_series, kd_stats |-> kd_stats, skill_stats |-> skill_stats]

save_plot_pdf ==
    /\ pc = "save_plot"
    /\ calls' = Append(calls, "save_plot_pdf")
    /\ graph_pdf' = PdfPages(graph_pdf, <<ChartFig>>)
    /\ pc' = "table"
    /\ UNCHANGED <<file, exc, row_i, game_data, out_dir, table_pdf, stdout,
                   timestamps_sorted, kd_series, skill_series, game_indices,
                   stats_calls, kd_stats, skill_stats, data_rows, total_pages, page,
                   built_pages>>

-----------------------------------------------------------------------------
(* save_table_pdf *)

\* the page count rounded down
TotalPagesFloor(n) == n \div ROWS_PER_PAGE

\* total_pages for n rows
TotalPages(n) == (n + ROWS_PER_PAGE - 1) \div ROWS_PER_PAGE

\* the figure of 0-based page p: its title's numbers, the header row and the rows
\* data_rows[start_idx:end_idx]
TablePage(gd, rows, total, p) ==
    LET start_idx == p * ROWS_PER_PAGE
        end_idx == IF (p + 1) * ROWS_PER_PAGE < Len(rows)
                   THEN (p + 1) * ROWS_PER_PAGE ELSE Len(rows)
        current_rows == SubSeq(rows, start_idx + 1, end_idx)
    IN  [title |-> <<p + 1, total>>,
         header |-> TABLE_HEADERS,
         rows |-> [i \in DOMAIN current_rows |->
                     [Timestamp |-> current_rows[i],
                      Skill |-> gd[current_rows[i]].Skill,
                      Kills |-> gd[current_rows[i]].Kills,
                      Deaths |-> gd[current_rows[i]].Deaths,
                      KD |-> gd[current_rows[i]].KD]]]

save_table_pdf_enter ==
    /\ pc = "table"
    /\ calls' = Append(calls, "save_table_pdf")
    /\ data_rows' = sorted(DOMAIN game_data)
    /\ total_pages' = TotalPages(Cardinality(DOMAIN game_data))
    /\ page' = 0
    /\ built_pages' = <<>>
    /\ pc' = "table_page"
    /\ UNCHANGED <<file, exc, row_i, game_data, out_dir, graph_pdf, table_pdf, stdout,
                   timestamps_sorted, kd_series, skill_series, game_indices,
                   stats_calls, kd_stats, skill_stats>>

\* one turn of the loop over the pages: the figure is built and saved through a
\* PdfPages opened on output_path for this page alone
save_table_pdf_page ==
    /\ pc = "table_page"
    /\ page < total_pages
    /\ LET fig == TablePage(game_data, data_rows, total_pages, page)
       IN  /\ built_pages' = Append(built_pages, fig)
           /\ table_pdf' = PdfPages(table_pdf, <<fig>>)
    /\ page' = page + 1
    /\ UNCHANGED <<file, pc, exc, row_i, game_data, out_dir, graph_pdf, stdout, calls,
                   timestamps_sorted, kd_series, skill_series, game_indices,
                   stats_calls, kd_stats, skill_stats, data_rows, total_pages>>

save_table_pdf_return ==
    /\ pc = "table_page"
    /\ page >= total_pages
    /\ pc' = "table_ret"
    /\ UNCHANGED <<file, exc, row_i, game_data, out_dir, graph_pdf, table_pdf, stdout,
                   calls, timestamps_sorted, kd_series, skill_series, game_indices,
                   stats_calls, kd_stats, skill_stats, data_rows, total_pages, page,
                   built_pages>>

\* print(f"PDF saved as {graph_pdf_path}")
main_success ==
    /\ pc = "table_ret"
    /\ stdout' = Append(stdout, "pdf_saved")
    /\ pc' = "done"
    /\ UNCHANGED <<file, exc, row_i, game_data, out_dir, graph_pdf, table_pdf, calls,
                   timestamps_sorted, kd_series, skill_series, game_indices,
                   stats_calls, kd_stats, skill_stats, data_rows, total_pages, page,
                   built_pages>>

\* compute_series_stats called on its own
stats_call ==
    /\ pc = "stats"
    /\ kd_stats' = <<compute_series_stats(kd_series)>>
    /\ stats_calls' = Append(stats_calls, kd_series)
    /\ pc' = "stats_done"
    /\ UNCHANGED <<file, exc, row_i, game_data, out_dir, graph_pdf, table_pdf, stdout,
                   calls, timestamps_sorted, kd_series, skill_series, game_indices,
                   skill_stats, data_rows, total_pages, page, built_pages>>

-----------------------------------------------------------------------------
(* Specifications *)

Blank ==
    /\ exc = "none"
    /\ row_i = 0
    /\ out_dir = FALSE
    /\ graph_pdf = NoFile
    /\ table_pdf = NoFile
    /\ stdout = <<>>
    /\ calls = <<>>
    /\ timestamps_sorted = <<>>
    /\ skill_series = <<>>
    /\ game_indices = <<>>
    /\ stats_calls = <<>>
    /\ kd_stats = <<>>
    /\ skill_stats = <<>>
    /\ data_rows = <<>>
    /\ total_pages = 0
    /\ page = 0
    /\ built_pages = <<>>

\* a run of main on an input file
Init ==
    /\ file \in Files
    /\ pc = "start"
    /\ game_data = <<>>
    /\ kd_series = <<>>
    /\ Blank

Next ==
    \/ main_file_missing
    \/ main_open
    \/ read_game_data_row
    \/ main_no_data
    \/ main_extract
    \/ generate_chart
    \/ save_plot_pdf
    \/ save_table_pdf_enter
    \/ save_table_pdf_page
    \/ save_table_pdf_return
    \/ main_success

Spec == Init /\ [][Next]_vars

\* a call of save_table_pdf on a dataset
InitTable ==
    /\ file = MissingFile
    /\ pc = "table"
    /\ game_data \in {GenData(n) : n \in 0..MaxRecords}
    /\ kd_series = <<>>
    /\ Blank

NextTable ==
    \/ save_table_pdf_enter
    \/ save_table_pdf_page
    \/ save_table_pdf_return

SpecTable == InitTable /\ [][NextTable]_vars

\* a call of compute_series_stats on a series
InitStats ==
    /\ file = MissingFile
    /\ pc = "stats"
    /\ game_data = <<>>
    /\ kd_series \in StatSeries
    /\ Blank

NextStats == stats_call

SpecStats == InitStats /\ [][NextStats]_vars

-----------------------------------------------------------------------------
(* Properties *)

NumRecords == Cardinality(DOMAIN game_data)

\* the least p with p * ROWS_PER_PAGE >= n
PagesFor(n) == CHOOSE p \in 0..n : p * ROWS_PER_PAGE >= n /\ (p = 0 \/ (p - 1) * ROWS_PER_PAGE < n)

\* the rows of a sequence of table pages, one after the other
RECURSIVE AllRows(_)
AllRows(pages) == IF pages = <<>> THEN <<>> ELSE pages[1].rows \o AllRows(Tail(pages))

\* read_game_data has returned to main
ReadReturned == file.exists /\ pc \notin {"start", "read", "raised"}

\* main has printed its confirmation
Succeeded == pc = "done" /\ stdout = <<"pdf_saved">>

\* C1 (as claimed): once save_table_pdf has returned for a dataset of N >= 1
\* records, the document at output_path holds all ceil(N/40) pages, page 1
\* first, and so every record of the dataset.
C1_AllPagesPersisted ==
    (pc = "table_ret" /\ NumRecords >= 1) =>
        /\ table_pdf.exists
        /\ Len(table_pdf.pages) = PagesFor(NumRecords)
        /\ \A i \in DOMAIN table_pdf.pages : table_pdf.pages[i].title[1] = i
        /\ \A ts \in DOMAIN game_data :
              \E r \in Range(AllRows(table_pdf.pages)) : r.Timestamp = ts

\* the timestamp cell of row i of the file, decoded
TsCell(i) == IF Len(file.rows[i]) >= 1 THEN utf8_decode(file.rows[i][1]) ELSE <<>>

\* C2 (as claimed): a file whose 'UTC Timestamp' header is preceded by a
\* byte-order mark yields the Dataset (or the failure) that the same file
\* without the mark yields.
C2_BomSameDataset ==
    (file.exists /\ pc \notin {"start", "read"}) =>
        LET plain == read_game_data([file EXCEPT !.header = Header(FALSE)])
        IN  /\ (pc = "raised") = plain.raised
            /\ pc # "raised" => game_data = plain.data

\* a required numeric field of the row is absent or fails coercion
BadNumeric(row) ==
    \/ ~py_int(dict_get(row, KEY_KILLS)).ok
    \/ ~py_int(dict_get(row, KEY_DEATHS)).ok
    \/ ~py_float(dict_get(row, KEY_SKILL)).ok

\* the run ended in an uncaught exception of read_game_data, with nothing returned,
\* no renderer called and no PDF written
ParseFailed ==
    /\ pc = "raised"
    /\ exc \in {"ValueError", "TypeError", "KeyError"}
    /\ game_data = <<>>
    /\ calls = <<"read_game_data">>
    /\ stdout = <<>>
    /\ ~graph_pdf.exists
    /\ ~table_pdf.exists

\* C3 (as claimed): if any row of the file has a Skill, Kills or Deaths field
\* that is absent or fails numeric coercion, read_game_data fails, returns no
\* Dataset, and neither PDF is written.
C3_AnyBadRowFails ==
    (file.exists /\ pc \notin {"start", "read"}
        /\ \E i \in DOMAIN file.rows : BadNumeric(csv_row(file, i)))
    => ParseFailed

\* C3 (amended): if any row in which the parser finds a non-empty timestamp
\* (under the key it looks up first, else under 'UTC Timestamp') has a Skill,
\* Kills or Deaths field that is absent or fails numeric coercion, read_game_data
\* fails, returns no Dataset, and neither PDF is written; a row without such a
\* timestamp is skipped before its fields are coerced.
C3_ParsedBadRowFails ==
    (file.exists /\ pc \notin {"start", "read"}
        /\ \E i \in DOMAIN file.rows :
              /\ truthy(py_or(dict_get(csv_row(file, i), KEY_BOM_TIMESTAMP),
                              dict_get(csv_row(file, i), UTC_TIMESTAMP)))
              /\ BadNumeric(csv_row(file, i)))
    => ParseFailed

\* a well-formed row was stored and the next row, which has a timestamp, failed
C3_Witness ==
    /\ ParseFailed
    /\ row_i = 2
    /\ exc = "ValueError"
    /\ ParseRow(csv_row(file, 1)).kind = "store"
    /\ BadNumeric(csv_row(file, 2))

\* C4: when the input path does not exist, main prints an error and ends
\* without calling the parser or a renderer; no PDF is written.
C4_MissingFileNoEffects ==
    (~file.exists /\ pc # "start") =>
        /\ pc = "done"
        /\ stdout = <<"file_missing">>
        /\ calls = <<>>
        /\ exc = "none"
        /\ game_data = <<>>
        /\ ~graph_pdf.exists
        /\ ~table_pdf.exists

C4_Witness ==
    ~file.exists /\ pc = "done" /\ stdout = <<"file_missing">> /\ ~out_dir

\* C5 (as claimed): the Dataset holds exactly one Record per distinct
\* non-empty timestamp of the input rows, with the values of the last row
\* carrying that timestamp, and the series and the table have as many entries.
C5_LastRowPerTimestamp ==
    ReadReturned =>
        LET keys == {TsCell(i) : i \in DOMAIN file.rows} \ {<<>>}
            last(k) == CHOOSE i \in DOMAIN file.rows :
                          /\ TsCell(i) = k
                          /\ \A j \in DOMAIN file.rows : TsCell(j) = k => j <= i
            cell(i, j) == utf8_decode(file.rows[i][j])
        IN  /\ DOMAIN game_data = keys
            /\ \A k \in keys :
                  /\ game_data[k].Skill = py_float(cell(last(k), 2)).v
                  /\ game_data[k].Kills = py_int(cell(last(k), 3)).v
                  /\ game_data[k].Deaths = py_int(cell(last(k), 4)).v
            /\ Succeeded =>
                  /\ Len(kd_series) = Cardinality(keys)
                  /\ Len(skill_series) = Cardinality(keys)
                  /\ Len(AllRows(built_pages)) = Cardinality(keys)

\* C6: every Record of the Dataset has ratio = kills when deaths = 0, and
\* ratio = kills / deaths (the exact quotient) otherwise.
C6_RatioInvariant ==
    \A k \in DOMAIN game_data :
        LET r == game_data[k]
        IN  /\ r.KD.d > 0
            /\ r.Deaths = 0 => r.KD = [n |-> r.Kills, d |-> 1]
            /\ r.Deaths # 0 => r.KD.n * r.Deaths = r.Kills * r.KD.d

\* the rows (10, 2), (0, 0), (5, 5) with ratios 5, 0, 1 and a ratio of 5/2
C6_Witness ==
    /\ \E k \in DOMAIN game_data :
          game_data[k].Kills = 10 /\ game_data[k].Deaths = 2 /\ game_data[k].KD = Rat(5, 1)
    /\ \E k \in DOMAIN game_data :
          game_data[k].Kills = 0 /\ game_data[k].Deaths = 0 /\ game_data[k].KD = Rat(0, 1)
    /\ \E k \in DOMAIN game_data :
          game_data[k].Kills = 5 /\ game_data[k].Deaths = 5 /\ game_data[k].KD = Rat(1, 1)

\* C7: for N records save_table_pdf builds ceil(N/40) pages (none when N = 0);
\* page i is titled 'Page i of total' and holds the header row and the sorted
\* records of ranks 40(i-1) .. min(40i, N)-1: 40 rows on every page but the
\* last, N - 40*(pages-1) on the last, every record once over all the pages.
C7_Pagination ==
    pc \in {"table_page", "table_ret"} =>
        LET N == NumRecords
            P == PagesFor(N)
            keys == data_rows
        IN  /\ Len(keys) = N
            /\ Range(keys) = DOMAIN game_data
            /\ \A i \in 1..(N - 1) : str_lt(keys[i], keys[i + 1])
            /\ total_pages = P
            /\ Len(built_pages) = page
            /\ page <= P
            /\ pc = "table_ret" => page = P
            /\ \A i \in DOMAIN built_pages :
                  LET pg == built_pages[i]
                      first == ROWS_PER_PAGE * (i - 1)
                  IN  /\ pg.title = <<i, P>>
                      /\ pg.header = TABLE_HEADERS
                      /\ Len(pg.rows) = IF i < P THEN ROWS_PER_PAGE
                                        ELSE N - ROWS_PER_PAGE * (P - 1)
                      /\ Len(pg.rows) \in 1..ROWS_PER_PAGE
                      /\ \A j \in DOMAIN pg.rows :
                            /\ pg.rows[j].Timestamp = keys[first + j]
                            /\ pg.rows[j].Skill = game_data[keys[first + j]].Skill
                            /\ pg.rows[j].Kills = game_data[keys[first + j]].Kills
                            /\ pg.rows[j].Deaths = game_data[keys[first + j]].Deaths
                            /\ pg.rows[j].KD = game_data[keys[first + j]].KD
            /\ pc = "table_ret" =>
                  LET all == AllRows(built_pages)
                  IN  /\ Len(all) = N
                      /\ \A k \in DOMAIN game_data :
                            Cardinality({j \in 1..N : all[j].Timestamp = k}) = 1

\* three pages, the last of them holding one row
C7_Witness ==
    /\ pc = "table_ret"
    /\ NumRecords = 2 * ROWS_PER_PAGE + 1
    /\ Len(built_pages) = 3
    /\ Len(built_pages[1].rows) = ROWS_PER_PAGE
    /\ Len(built_pages[3].rows) = 1
    /\ built_pages[3].title = <<3, 3>>

\* C8: for a non-empty series, min_idx and max_idx are the 0-based indices of
\* the first occurrence of the minimum and of the maximum, series[min_idx] = min,
\* series[max_idx] = max, span >= max(|min|, |max|) and span > 0.
C8_FirstExtremaAndSpan ==
    (pc = "stats_done" /\ kd_series # <<>>) =>
        LET s == kd_series
            r == kd_stats[1]
        IN  /\ r.min_idx \in 0..(Len(s) - 1)
            /\ r.max_idx \in 0..(Len(s) - 1)
            /\ s[r.min_idx + 1] = r.smin
            /\ s[r.max_idx + 1] = r.smax
            /\ \A j \in DOMAIN s : RatLeq(r.smin, s[j]) /\ RatLeq(s[j], r.smax)
            /\ \A j \in 1..r.min_idx : s[j] # r.smin
            /\ \A j \in 1..r.max_idx : s[j] # r.smax
            /\ RatLeq(RatAbs(r.smin), r.span)
            /\ RatLeq(RatAbs(r.smax), r.span)
            /\ RatLess(RatZero, r.span)

\* a series of zeros: both extrema tie at every index and the span is 1e-9
C8_Witness ==
    /\ pc = "stats_done"
    /\ Len(kd_series) = MaxSeries
    /\ \A j \in DOMAIN kd_series : kd_series[j] = RatZero
    /\ kd_stats[1].min_idx = 0
    /\ kd_stats[1].max_idx = 0
    /\ kd_stats[1].span = EPS

\* main has built its series
Extracted ==
    \/ pc \in {"chart", "save_plot", "table", "table_page", "table_ret"}
    \/ Succeeded

\* C9: the keys main uses are in strictly ascending string order, the ratio
\* and skill series are aligned with them, the positions are 1..N, and the rows
\* of the table are in the same order, so index i of the chart and row i of the
\* table are the same record.
C9_SortedAligned ==
    Extracted =>
        LET N == NumRecords
            ts == timestamps_sorted
        IN  /\ Len(ts) = N
            /\ Range(ts) = DOMAIN game_data
            /\ \A i \in 1..N : \A j \in 1..N : i < j => str_lt(ts[i], ts[j])
            /\ Len(kd_series) = N
            /\ Len(skill_series) = N
            /\ \A i \in 1..N :
                  /\ kd_series[i] = game_data[ts[i]].KD
                  /\ skill_series[i] = game_data[ts[i]].Skill
            /\ game_indices = [i \in 1..N |-> i]
            /\ pc \in {"table_ret", "done"} =>
                  LET all == AllRows(built_pages)
                  IN  /\ Len(all) = N
                      /\ \A i \in 1..N :
                            /\ all[i].Timestamp = ts[game_indices[i]]
                            /\ all[i].KD = kd_series[i]
                            /\ all[i].Skill = skill_series[i]

\* a run over two pages whose timestamps were not in order in the file
C9_Witness ==
    /\ Succeeded
    /\ NumRecords > ROWS_PER_PAGE
    /\ Len(built_pages) = 2
    /\ \E i \in 1..(Len(file.rows) - 1) : str_lt(TsCell(i + 1), TsCell(i))

\* C10: compute_series_stats is called on non-empty series only; when the
\* Dataset is empty main prints 'no valid data' and ends before a renderer runs,
\* no PDF written; the confirmation is printed only when the Dataset was not
\* empty and the chart document and then the table document were written.
C10_EmptyDatasetGuard ==
    /\ \A i \in DOMAIN stats_calls : stats_calls[i] # <<>>
    /\ (ReadReturned /\ game_data = <<>>) =>
          /\ pc = "done"
          /\ stdout = <<"no_valid_data">>
          /\ calls = <<"read_game_data">>
          /\ stats_calls = <<>>
          /\ ~graph_pdf.exists
          /\ ~table_pdf.exists
    /\ "pdf_saved" \in Range(stdout) =>
          /\ Succeeded
          /\ game_data # <<>>
          /\ calls = <<"read_game_data", "generate_chart", "save_plot_pdf",
                       "save_table_pdf">>
          /\ Len(stats_calls) = 2
          /\ graph_pdf.exists /\ Len(graph_pdf.pages) = 1
          /\ table_pdf.exists /\ Len(table_pdf.pages) >= 1

\* every row of a file that has rows was skipped for lacking a timestamp
C10_Witness ==
    /\ pc = "done"
    /\ stdout = <<"no_valid_data">>
    /\ Len(file.rows) = MaxRows
    /\ \A i \in DOMAIN file.rows : ParseRow(csv_row(file, i)).kind = "skip"

====
